---- MODULE Spec2Model ----
(***************************************************************************)
(* Model of the personal expense ledger (class ExpenseTracker and main).   *)
(*                                                                         *)
(* Text.  A Python str is modelled as a sequence of characters, and each   *)
(* character as a one-character TLA+ string.  An ASCII character is        *)
(* itself ("2", "/", "-"); a non-ASCII character is written by its code    *)
(* point, so that U+996D (饭) is "u996d" and the full-width comma U+FF0C   *)
(* (，) is "uff0c".  The comments give the original text.                  *)
(*                                                                         *)
(* Categories.  The five category names are atomic strings: "chifan" is    *)
(* 吃饭, "yule" is 娱乐, "jiaotong" is 交通, "gouwu" is 购物 and "qita"    *)
(* is 其他.  "lvxing" (旅行) stands for an explicit category argument that *)
(* category_keywords does not declare.                                     *)
(*                                                                         *)
(* Amounts.  A float amount is modelled exactly, as an integer count of    *)
(* hundredths; the inputs carry at most two fractional digits.             *)
(***************************************************************************)
EXTENDS Integers, Sequences, FiniteSets, TLC

VARIABLES
    expenses,      \* self.expenses: period key -> category -> list of records
    file,          \* the durable file self.filename
    pc,            \* position of the process in main / add_expense / save_data
    ret,           \* what the last parse_input / add_expense call returned
    saveLog,       \* what the last save_data call logged
    report,        \* what the last summary or report call computed
    durable,       \* history: the ledger written by the last completed save
    description,   \* the argument of a categorize_description call
    category       \* the value that call returned

vars == <<expenses, file, pc, ret, saveLog, report, durable, description, category>>

(***************************************************************************)
(* Bounds of the model.                                                    *)
(***************************************************************************)
\* the number of records a ledger holds
MaxRecords == 3
\* the length of a description handed to categorize_description
MaxDescLen == 3

(***************************************************************************)
(* Characters and strings.                                                 *)
(***************************************************************************)
Digits == <<"0", "1", "2", "3", "4", "5", "6", "7", "8", "9">>

IsDigit(c) == \E i \in 1..10 : Digits[i] = c

DigitVal(c) == (CHOOSE i \in 1..10 : Digits[i] = c) - 1

UpperCase == <<"A", "B", "C", "D", "E", "F", "G", "H", "I", "J", "K", "L", "M",
               "N", "O", "P", "Q", "R", "S", "T", "U", "V", "W", "X", "Y", "Z">>

LowerCase == <<"a", "b", "c", "d", "e", "f", "g", "h", "i", "j", "k", "l", "m",
               "n", "o", "p", "q", "r", "s", "t", "u", "v", "w", "x", "y", "z">>

\* str.lower() on one character: only cased characters change
LowerChar(c) ==
    IF \E i \in 1..26 : UpperCase[i] = c
    THEN LowerCase[CHOOSE i \in 1..26 : UpperCase[i] = c]
    ELSE c

\* str.lower()
Lower(s) == [i \in 1..Len(s) |-> LowerChar(s[i])]

\* the Python test "k in s" on strings: k is a substring of s
Contains(s, k) ==
    \E i \in 0..(Len(s) - Len(k)) : \A j \in 1..Len(k) : s[i + j] = k[j]

(***************************************************************************)
(* self.category_keywords, in declaration order.                           *)
(***************************************************************************)
\* 吃饭: 饭 餐 食 面 火锅 烧烤 小吃 菜 米 奶茶 饮料 水果 早餐 午餐 晚餐 夜宵 零食 外卖 堂食 快餐 麦当劳 肯德基
KwChiFan ==
    <<<<"u996d">>,
      <<"u9910">>,
      <<"u98df">>,
      <<"u9762">>,
      <<"u706b", "u9505">>,
      <<"u70e7", "u70e4">>,
      <<"u5c0f", "u5403">>,
      <<"u83dc">>,
      <<"u7c73">>,
      <<"u5976", "u8336">>,
      <<"u996e", "u6599">>,
      <<"u6c34", "u679c">>,
      <<"u65e9", "u9910">>,
      <<"u5348", "u9910">>,
      <<"u665a", "u9910">>,
      <<"u591c", "u5bb5">>,
      <<"u96f6", "u98df">>,
      <<"u5916", "u5356">>,
      <<"u5802", "u98df">>,
      <<"u5feb", "u9910">>,
      <<"u9ea6", "u5f53", "u52b3">>,
      <<"u80af", "u5fb7", "u57fa">>>>

\* 娱乐: 电影 游戏 ktv 唱歌 电玩 网吧 电竞 演唱会 音乐会 剧场 展览 博物馆 健身 运动 旅游 景点 门票 电视会员 视频会员
KwYuLe ==
    <<<<"u7535", "u5f71">>,
      <<"u6e38", "u620f">>,
      <<"k", "t", "v">>,
      <<"u5531", "u6b4c">>,
      <<"u7535", "u73a9">>,
      <<"u7f51", "u5427">>,
      <<"u7535", "u7ade">>,
      <<"u6f14", "u5531", "u4f1a">>,
      <<"u97f3", "u4e50", "u4f1a">>,
      <<"u5267", "u573a">>,
      <<"u5c55", "u89c8">>,
      <<"u535a", "u7269", "u9986">>,
      <<"u5065", "u8eab">>,
      <<"u8fd0", "u52a8">>,
      <<"u65c5", "u6e38">>,
      <<"u666f", "u70b9">>,
      <<"u95e8", "u7968">>,
      <<"u7535", "u89c6", "u4f1a", "u5458">>,
      <<"u89c6", "u9891", "u4f1a", "u5458">>>>

\* 交通: 地铁 公交 出租 打车 单车 共享单车 加油 停车 高铁 火车 飞机 机票 车票
KwJiaoTong ==
    <<<<"u5730", "u94c1">>,
      <<"u516c", "u4ea4">>,
      <<"u51fa", "u79df">>,
      <<"u6253", "u8f66">>,
      <<"u5355", "u8f66">>,
      <<"u5171", "u4eab", "u5355", "u8f66">>,
      <<"u52a0", "u6cb9">>,
      <<"u505c", "u8f66">>,
      <<"u9ad8", "u94c1">>,
      <<"u706b", "u8f66">>,
      <<"u98de", "u673a">>,
      <<"u673a", "u7968">>,
      <<"u8f66", "u7968">>>>

\* 购物: 衣服 裤子 鞋 包 化妆品 护肤品 电子产品 手机 电脑 数码 家具 日用品 超市
KwGouWu ==
    <<<<"u8863", "u670d">>,
      <<"u88e4", "u5b50">>,
      <<"u978b">>,
      <<"u5305">>,
      <<"u5316", "u5986", "u54c1">>,
      <<"u62a4", "u80a4", "u54c1">>,
      <<"u7535", "u5b50", "u4ea7", "u54c1">>,
      <<"u624b", "u673a">>,
      <<"u7535", "u8111">>,
      <<"u6570", "u7801">>,
      <<"u5bb6", "u5177">>,
      <<"u65e5", "u7528", "u54c1">>,
      <<"u8d85", "u5e02">>>>

\* the keys of category_keywords, in declaration order
Categories == <<"chifan", "yule", "jiaotong", "gouwu", "qita">>

category_keywords ==
    [c \in {Categories[i] : i \in 1..Len(Categories)} |->
        CASE c = "chifan" -> KwChiFan
          [] c = "yule" -> KwYuLe
          [] c = "jiaotong" -> KwJiaoTong
          [] c = "gouwu" -> KwGouWu
          [] OTHER -> <<>>]

\* the category of the default return
DefaultCategory == "qita"

\* one category's keywords against the lower-cased description
MatchesCategory(d, c) ==
    \E k \in 1..Len(category_keywords[c]) :
        Contains(d, Lower(category_keywords[c][k]))

\* a categorizer that keeps the last category that matches
RECURSIVE LastMatch(_, _)
LastMatch(d, i) ==
    IF i > Len(Categories) THEN DefaultCategory
    ELSE IF LastMatch(d, i + 1) # DefaultCategory THEN LastMatch(d, i + 1)
    ELSE IF MatchesCategory(d, Categories[i]) THEN Categories[i]
    ELSE DefaultCategory

\* the loop over category_keywords.items(), from the i-th category on
RECURSIVE FirstMatch(_, _)
FirstMatch(d, i) ==
    IF i > Len(Categories) THEN DefaultCategory
    ELSE IF MatchesCategory(d, Categories[i]) THEN Categories[i]
    ELSE FirstMatch(d, i + 1)

categorize_description(desc) == FirstMatch(Lower(desc), 1)

(***************************************************************************)
(* Numbers in text.                                                        *)
(***************************************************************************)
\* int() of a string of decimal digits
RECURSIVE NumVal(_)
NumVal(ds) ==
    IF Len(ds) = 0 THEN 0
    ELSE NumVal(SubSeq(ds, 1, Len(ds) - 1)) * 10 + DigitVal(ds[Len(ds)])

\* the format specification {n} of an f-string: decimal, no padding
RECURSIVE Str(_)
Str(n) ==
    IF n < 0 THEN <<"-">> \o Str(0 - n)
    ELSE IF n < 10 THEN <<Digits[n + 1]>>
    ELSE Str(n \div 10) \o <<Digits[(n % 10) + 1]>>

\* the format specification {n:02d} of an f-string
Pad2(n) == IF n < 10 THEN <<"0">> \o Str(n) ELSE Str(n)

\* True when every character of s is a decimal digit
AllDigits(s) == \A i \in 1..Len(s) : IsDigit(s[i])

\* the number of consecutive digits of s from position i on
RECURSIVE DigitRun(_, _)
DigitRun(s, i) ==
    IF i > Len(s) \/ ~IsDigit(s[i]) THEN 0 ELSE 1 + DigitRun(s, i + 1)

\* s.split(sep) for a one-character separator
RECURSIVE Split(_, _)
Split(s, sep) ==
    IF \E i \in 1..Len(s) : s[i] = sep
    THEN LET i == CHOOSE k \in 1..Len(s) :
                      s[k] = sep /\ \A j \in 1..(k - 1) : s[j] # sep
         IN  <<SubSeq(s, 1, i - 1)>> \o Split(SubSeq(s, i + 1, Len(s)), sep)
    ELSE <<s>>

(***************************************************************************)
(* datetime.datetime.strptime(date_str, '%Y/%m/%d').                       *)
(***************************************************************************)
\* %Y is \d\d\d\d
MatchesY(f) == Len(f) = 4 /\ AllDigits(f)

\* %m is 1[0-2]|0[1-9]|[1-9]
MatchesM(f) == Len(f) \in 1..2 /\ AllDigits(f) /\ NumVal(f) \in 1..12

\* %d is 3[0-1]|[1-2]\d|0[1-9]|[1-9]
MatchesD(f) == Len(f) \in 1..2 /\ AllDigits(f) /\ NumVal(f) \in 1..31

IsLeap(y) == (y % 4 = 0 /\ y % 100 # 0) \/ y % 400 = 0

DaysInMonth(y, m) ==
    IF m = 2 THEN (IF IsLeap(y) THEN 29 ELSE 28)
    ELSE IF m \in {4, 6, 9, 11} THEN 30 ELSE 31

\* the date parsed (ok), or ok = FALSE when strptime raises ValueError
ValueError == [ok |-> FALSE]

strptime(date_str) ==
    LET f == Split(date_str, "/")
    IN  IF Len(f) = 3 /\ MatchesY(f[1]) /\ MatchesM(f[2]) /\ MatchesD(f[3])
        THEN LET y == NumVal(f[1])
                 m == NumVal(f[2])
                 d == NumVal(f[3])
             IN  IF y >= 1 /\ d <= DaysInMonth(y, m)
                 THEN [ok |-> TRUE, year |-> y, month |-> m, day |-> d]
                 ELSE ValueError
        ELSE ValueError

\* a two-digit year is completed with the prefix '20'
CompleteYear(date_str) ==
    IF Len(Split(date_str, "/")[1]) = 2 THEN <<"2", "0">> \o date_str
    ELSE date_str

\* a month key made of the day of the month
MonthKeyOfDay(date) == Str(date.year) \o <<"-">> \o Pad2(date.day)

\* month_key = f"{date.year}-{date.month:02d}"
MonthKey(date) == Str(date.year) \o <<"-">> \o Pad2(date.month)

(***************************************************************************)
(* parse_input: re.match, at the start of the input line, of the pattern  *)
(* of line 160 (a date of 2-4 digits / 1-2 digits / 1-2 digits, a          *)
(* full-width comma, a greedy non-empty description, "-", and a number:    *)
(* digits, an optional point, optional digits), then float() of the        *)
(* number.                                                                 *)
(***************************************************************************)
\* float() of the number token, in hundredths
ToFloat(t) ==
    LET n  == DigitRun(t, 1)
        fr == SubSeq(t, n + 2, Len(t))
    IN  NumVal(SubSeq(t, 1, n)) * 100
        + (IF Len(fr) >= 1 THEN DigitVal(fr[1]) * 10 ELSE 0)
        + (IF Len(fr) >= 2 THEN DigitVal(fr[2]) ELSE 0)

\* the end of group 1 (the position of the full-width comma), or 0
DateEnd(s) ==
    LET y == DigitRun(s, 1)
        m == DigitRun(s, y + 2)
        d == DigitRun(s, y + m + 3)
        e == y + m + d + 3
    IN  IF /\ y \in 2..4 /\ m \in 1..2 /\ d \in 1..2
           /\ e <= Len(s)
           /\ s[y + 1] = "/" /\ s[y + m + 2] = "/" /\ s[e] = "uff0c"
        THEN e ELSE 0

\* the positions of a "-" followed by a digit, with a non-empty description before it
DashPositions(s, e) ==
    {j \in (e + 2)..(Len(s) - 1) : s[j] = "-" /\ IsDigit(s[j + 1])}

\* the regular expression's groups (matched), or matched = FALSE for None
None == [matched |-> FALSE]

parse_input(input_str) ==
    LET e == DateEnd(input_str)
    IN  IF e = 0 \/ DashPositions(input_str, e) = {} THEN None
        ELSE LET j  == CHOOSE k \in DashPositions(input_str, e) :
                           \A l \in DashPositions(input_str, e) : l <= k
                 a  == DigitRun(input_str, j + 1)
                 dot == j + a + 1 <= Len(input_str) /\ input_str[j + a + 1] = "."
                 b  == IF dot THEN DigitRun(input_str, j + a + 2) ELSE 0
                 last == IF dot THEN j + a + 1 + b ELSE j + a
             IN  [matched |-> TRUE,
                  date_str |-> SubSeq(input_str, 1, e - 1),
                  description |-> SubSeq(input_str, e + 1, j - 1),
                  amount |-> ToFloat(SubSeq(input_str, j + 1, last))]

(***************************************************************************)
(* Dictionaries.  A dict is a function on the set of its keys.             *)
(***************************************************************************)
EmptyDict == [k \in {} |-> <<>>]

\* d.get(k, default)
Get(d, k, default) == IF k \in DOMAIN d THEN d[k] ELSE default

\* d[k] on a defaultdict: a missing key is created with the default value
Vivify(d, k, default) ==
    [x \in DOMAIN d \cup {k} |-> IF x \in DOMAIN d THEN d[x] ELSE default]

\* the sum of a function's values
RECURSIVE SumFn(_)
SumFn(f) ==
    IF DOMAIN f = {} THEN 0
    ELSE LET x == CHOOSE y \in DOMAIN f : TRUE
         IN  f[x] + SumFn([y \in DOMAIN f \ {x} |-> f[y]])

\* the number of records of a ledger
RecordCount(exp) ==
    SumFn([m \in DOMAIN exp |->
              SumFn([c \in DOMAIN exp[m] |-> Len(exp[m][c])])])

(***************************************************************************)
(* The ledger store: load_data and save_data.                              *)
(***************************************************************************)
\* the file does not exist
Absent == [kind |-> "absent"]

\* open(self.filename, 'w') has truncated the file and nothing is written
Truncated == [kind |-> "empty"]

\* json.dump stopped part of the way: the text is a prefix of a JSON object
Partial == [kind |-> "partial"]

\* json.dump(regular_dict, f): the complete JSON text of the dict
JsonText(d) == [kind |-> "json", data |-> d]

\* regular_dict = {month: dict(categories) for month, categories in ...}
RegularDict(exp) ==
    [month \in DOMAIN exp |->
        [c \in DOMAIN exp[month] |-> exp[month][c]]]

\* a load that takes the first record of each list only
ExtendFirstOnly(exp, loaded_data) ==
    LET months == DOMAIN exp \cup
                  {m \in DOMAIN loaded_data : DOMAIN loaded_data[m] # {}}
    IN  [m \in months |->
            LET old == Get(exp, m, EmptyDict)
                new == Get(loaded_data, m, EmptyDict)
            IN  [c \in DOMAIN old \cup DOMAIN new |->
                    Get(old, c, <<>>) \o SubSeq(Get(new, c, <<>>), 1, 1)]]

\* the two loops of load_data over json.load(f):
\* self.expenses[month][category].extend(expense_list)
ExtendAll(exp, loaded_data) ==
    LET months == DOMAIN exp \cup
                  {m \in DOMAIN loaded_data : DOMAIN loaded_data[m] # {}}
    IN  [m \in months |->
            LET old == Get(exp, m, EmptyDict)
                new == Get(loaded_data, m, EmptyDict)
            IN  [c \in DOMAIN old \cup DOMAIN new |->
                    Get(old, c, <<>>) \o Get(new, c, <<>>)]]

\* json.load raises on a text that is no JSON value
JsonLoadRaises(f) == f.kind \in {"empty", "partial"}

\* self.expenses after load_data, from self.expenses = exp and the file f
load_data(exp, f) ==
    IF f.kind = "absent" THEN exp
    ELSE IF JsonLoadRaises(f) THEN EmptyDict
    ELSE ExtendAll(exp, f.data)

(***************************************************************************)
(* add_expense.                                                            *)
(***************************************************************************)
\* self.expenses[month_key][category].append(expense)
AppendExpense(exp, month_key, cat, expense) ==
    LET e1    == Vivify(exp, month_key, EmptyDict)
        inner == Vivify(e1[month_key], cat, <<>>)
    IN  [e1 EXCEPT ![month_key] = [inner EXCEPT ![cat] = Append(@, expense)]]

\* the category of the record: the argument, or the categorizer's when None
ResolveCategory(cat, desc) ==
    IF cat = "None" THEN categorize_description(desc) ELSE cat

\* add_expense, lines 121-134: the date, the month key and the record, or
\* ok = FALSE when strptime raises ValueError
BuildExpense(date_str0, desc, amount, cat0) ==
    LET date_str == CompleteYear(date_str0)
        date     == strptime(date_str)
    IN  IF ~date.ok THEN [ok |-> FALSE]
        ELSE [ok |-> TRUE,
              month_key |-> MonthKey(date),
              expense |-> [date |-> date_str,
                           description |-> desc,
                           amount |-> amount,
                           category |-> ResolveCategory(cat0, desc)]]

(***************************************************************************)
(* The inputs.                                                             *)
(***************************************************************************)
\* 2024/1/5，午餐-A-100元
LineJan ==
    <<"2", "0", "2", "4", "/", "1", "/", "5", "uff0c",
      "u5348", "u9910", "-", "A", "-", "1", "0", "0", "u5143">>

\* 2024/02/14，黄焖鸡米饭-25
LineFeb ==
    <<"2", "0", "2", "4", "/", "0", "2", "/", "1", "4", "uff0c",
      "u9ec4", "u7116", "u9e21", "u7c73", "u996d", "-", "2", "5">>

\* 24/02/14，地铁-5
LineTwoDigitYear ==
    <<"2", "4", "/", "0", "2", "/", "1", "4", "uff0c", "u5730", "u94c1", "-", "5">>

\* 2024/12/20，电影票-130
LineDec ==
    <<"2", "0", "2", "4", "/", "1", "2", "/", "2", "0", "uff0c",
      "u7535", "u5f71", "u7968", "-", "1", "3", "0">>

\* 2023/12/31，超市-50.5
LinePrevYear ==
    <<"2", "0", "2", "3", "/", "1", "2", "/", "3", "1", "uff0c",
      "u8d85", "u5e02", "-", "5", "0", ".", "5">>

\* 0024/02/14，KTV-7
LineYear24 ==
    <<"0", "0", "2", "4", "/", "0", "2", "/", "1", "4", "uff0c",
      "K", "T", "V", "-", "7">>

\* 2024/02/30，饭-5
LineFeb30 ==
    <<"2", "0", "2", "4", "/", "0", "2", "/", "3", "0", "uff0c", "u996d", "-", "5">>

\* 024/02/14，饭-5
LineThreeDigitYear ==
    <<"0", "2", "4", "/", "0", "2", "/", "1", "4", "uff0c", "u996d", "-", "5">>

\* 2024-02-14，饭-5
LineDashes ==
    <<"2", "0", "2", "4", "-", "0", "2", "-", "1", "4", "uff0c", "u996d", "-", "5">>

\* 2024/02/14，饭
LineNoAmount ==
    <<"2", "0", "2", "4", "/", "0", "2", "/", "1", "4", "uff0c", "u996d">>

\* what the user types at "请输入支出"
InputLines ==
    {LineJan, LineFeb, LineTwoDigitYear, LineDec, LinePrevYear, LineYear24,
     LineFeb30, LineThreeDigitYear, LineDashes, LineNoAmount}

\* add_expense called with an explicit category:
\* ("2024/12/24", "礼物", 20.0, "旅行"), ("2024/1/9", "地铁", 25.0, "吃饭")
\* and ("2024/13/01", "饭", 5.0, "购物")
DirectCalls ==
    {[date_str |-> <<"2", "0", "2", "4", "/", "1", "2", "/", "2", "4">>,
      description |-> <<"u793c", "u7269">>, amount |-> 2000, category |-> "lvxing"],
     [date_str |-> <<"2", "0", "2", "4", "/", "1", "/", "9">>,
      description |-> <<"u5730", "u94c1">>, amount |-> 2500, category |-> "chifan"],
     [date_str |-> <<"2", "0", "2", "4", "/", "1", "3", "/", "0", "1">>,
      description |-> <<"u996d">>, amount |-> 500, category |-> "gouwu"]}

\* the calls of add_expense that main makes: parse_input's result, None
MainCalls ==
    {[date_str |-> parse_input(l).date_str,
      description |-> parse_input(l).description,
      amount |-> parse_input(l).amount,
      category |-> "None"] : l \in {x \in InputLines : parse_input(x).matched}}

\* lines 121-134 of add_expense for each call
Built ==
    [c \in MainCalls \cup DirectCalls |->
        BuildExpense(c.date_str, c.description, c.amount, c.category)]

\* parse_input for each input line
Parsed == [l \in InputLines |-> parse_input(l)]

\* the call main makes after parse_input matched
MainCall(result) ==
    [date_str |-> result.date_str, description |-> result.description,
     amount |-> result.amount, category |-> "None"]

(***************************************************************************)
(* The steps of add_expense and save_data.                                 *)
(***************************************************************************)
\* an add_expense that returns False after the in-memory append
AddExpenseThenFalse(c) ==
    /\ pc = "menu"
    /\ IF ~Built[c].ok
       THEN /\ ret' = "False"
            /\ UNCHANGED <<expenses, file, pc, saveLog, report, durable,
                           description, category>>
       ELSE /\ RecordCount(expenses) < MaxRecords
            /\ expenses' = AppendExpense(expenses, Built[c].month_key,
                                         Built[c].expense.category,
                                         Built[c].expense)
            /\ ret' = "False"
            /\ UNCHANGED <<file, pc, saveLog, report, durable, description, category>>

\* add_expense up to and including the in-memory append (lines 119-137);
\* with a date that strptime rejects, the ValueError handler returns False
AddExpense(c) ==
    /\ pc = "menu"
    /\ IF ~Built[c].ok
       THEN /\ ret' = "False"
            /\ UNCHANGED <<expenses, file, pc, saveLog, report, durable,
                           description, category>>
       ELSE /\ RecordCount(expenses) < MaxRecords
            /\ expenses' = AppendExpense(expenses, Built[c].month_key,
                                         Built[c].expense.category,
                                         Built[c].expense)
            /\ pc' = "appended"
            /\ ret' = "running"
            /\ UNCHANGED <<file, saveLog, report, durable, description, category>>

\* save_data, line 84: open(self.filename, 'w') truncates the file
SaveOpen ==
    /\ pc = "appended"
    /\ file' = Truncated
    /\ pc' = "writing"
    /\ UNCHANGED <<expenses, ret, saveLog, report, durable, description, category>>

\* save_data, line 84 raises (the file cannot be opened): the handler logs
\* the error, and add_expense goes on to return True
SaveOpenFails ==
    /\ pc = "appended"
    /\ saveLog' = "error"
    /\ ret' = "True"
    /\ pc' = "menu"
    /\ UNCHANGED <<expenses, file, report, durable, description, category>>

\* save_data, line 85: json.dump writes the whole dict and the file is
\* closed; add_expense returns True
SaveWrite ==
    /\ pc = "writing"
    /\ file' = JsonText(RegularDict(expenses))
    /\ durable' = expenses
    /\ saveLog' = "saved"
    /\ ret' = "True"
    /\ pc' = "menu"
    /\ UNCHANGED <<expenses, report, description, category>>

\* save_data, line 85 raises part of the way (an I/O error): the handler
\* logs the error, and add_expense goes on to return True
SaveWriteFails ==
    /\ pc = "writing"
    /\ file' = Partial
    /\ saveLog' = "error"
    /\ ret' = "True"
    /\ pc' = "menu"
    /\ UNCHANGED <<expenses, report, durable, description, category>>

\* the process ends: choice 4 at the menu, or a kill at any point of
\* add_expense; what is in memory is gone
Stop ==
    /\ pc \in {"menu", "appended", "writing"}
    /\ pc' = "stopped"
    /\ expenses' = EmptyDict
    /\ ret' = "none"
    /\ saveLog' = "none"
    /\ UNCHANGED <<file, report, durable, description, category>>

\* the next run: ExpenseTracker() starts from an empty ledger and load_data
Restart ==
    /\ pc = "stopped"
    /\ expenses' = load_data(EmptyDict, file)
    /\ pc' = "menu"
    /\ UNCHANGED <<file, ret, saveLog, report, durable, description, category>>

(***************************************************************************)
(* main.                                                                   *)
(***************************************************************************)
\* choice 1: parse_input, and add_expense when it returned a result
RecordExpense(input_str) ==
    /\ pc = "menu"
    /\ IF ~Parsed[input_str].matched
       THEN /\ ret' = "None"
            /\ UNCHANGED <<expenses, file, pc, saveLog, report, durable,
                           description, category>>
       ELSE AddExpense(MainCall(Parsed[input_str]))

\* add_expense called by a program that uses the class
DirectCall(c) == AddExpense(c)

(***************************************************************************)
(* The aggregator: get_monthly_summary.                                    *)
(***************************************************************************)
\* d[k] = v on a dict
Put(d, k, v) == [x \in DOMAIN d \cup {k} |-> IF x = k THEN v ELSE d[x]]

\* a sum that leaves the first record out
RECURSIVE SumAmountsFromSecond(_)
SumAmountsFromSecond(list) ==
    IF Len(list) <= 1 THEN 0
    ELSE SumAmountsFromSecond(SubSeq(list, 1, Len(list) - 1))
         + list[Len(list)].amount

\* sum(expense['amount'] for expense in list)
RECURSIVE SumAmounts(_)
SumAmounts(list) ==
    IF Len(list) = 0 THEN 0
    ELSE SumAmounts(SubSeq(list, 1, Len(list) - 1)) + list[Len(list)].amount

\* the loop over self.category_keywords.keys(), from the i-th category on
RECURSIVE SummaryLoop(_, _, _, _)
SummaryLoop(monthly_data, i, category_totals, total) ==
    IF i > Len(Categories)
    THEN [category_totals |-> category_totals, total |-> total]
    ELSE LET category_total ==
                 SumAmounts(Get(monthly_data, Categories[i], <<>>))
         IN  SummaryLoop(monthly_data, i + 1,
                         Put(category_totals, Categories[i], category_total),
                         total + category_total)

get_monthly_summary(exp, month_key) ==
    SummaryLoop(Get(exp, month_key, EmptyDict), 1, EmptyDict, 0)

(***************************************************************************)
(* generate_monthly_report: the period-over-period comparison.             *)
(***************************************************************************)
\* prev_month, lines 305-306
PrevMonth(month_key) ==
    LET year  == NumVal(Split(month_key, "-")[1])
        month == NumVal(Split(month_key, "-")[2])
    IN  IF month > 1 THEN Str(year) \o <<"-">> \o Pad2(month - 1)
        ELSE Str(year - 1) \o <<"-", "1", "2">>

\* the string 无上月数据
NoPriorData == [kind |-> "no prior data"]

\* a change whose test is on the current total
ChangeTestsCurrent(current, previous) ==
    IF current = 0 THEN NoPriorData
    ELSE [kind |-> "percent", num |-> (current - previous) * 100, den |-> previous]

\* change, lines 314-317: the sentinel, or the percentage as the exact
\* quotient num / den (its rendering with one decimal is left to the display)
Change(current, previous) ==
    IF previous = 0 THEN NoPriorData
    ELSE [kind |-> "percent", num |-> (current - previous) * 100, den |-> previous]

\* what generate_monthly_report computes, after the font was found
generate_monthly_report(exp, month_key) ==
    LET summary == get_monthly_summary(exp, month_key)
        prev    == get_monthly_summary(exp, PrevMonth(month_key))
    IN  IF summary.total = 0
        THEN [kind |-> "nodata", month_key |-> month_key,
              category_totals |-> summary.category_totals,
              total |-> summary.total]
        ELSE [kind |-> "monthly", month_key |-> month_key,
              category_totals |-> summary.category_totals,
              total |-> summary.total,
              prev_month |-> PrevMonth(month_key),
              prev_totals |-> prev.category_totals,
              change |-> [c \in DOMAIN category_keywords |->
                            Change(Get(summary.category_totals, c, 0),
                                   Get(prev.category_totals, c, 0))],
              shown |-> {c \in DOMAIN category_keywords :
                            \/ Get(summary.category_totals, c, 0) > 0
                            \/ Get(prev.category_totals, c, 0) > 0}]

(***************************************************************************)
(* generate_yearly_report.                                                 *)
(***************************************************************************)
\* sum() of a list of numbers
RECURSIVE SumSeq(_)
SumSeq(s) ==
    IF Len(s) = 0 THEN 0 ELSE SumSeq(SubSeq(s, 1, Len(s) - 1)) + s[Len(s)]

\* trend > 0.1, for trend = (last - first) / first, first # 0
RatioAboveTenth(first, last) ==
    IF first > 0 THEN (last - first) * 10 > first
    ELSE (last - first) * 10 < first

\* trend < -0.1, for trend = (last - first) / first, first # 0
RatioBelowMinusTenth(first, last) ==
    IF first > 0 THEN (last - first) * 10 < 0 - first
    ELSE (last - first) * 10 > 0 - first

\* a label that is "falling" only when the last month has spending
TrendLabelLastNonZero(monthly_totals) ==
    LET first == monthly_totals[1]
        last  == monthly_totals[Len(monthly_totals)]
    IN  IF first # 0 /\ RatioAboveTenth(first, last) THEN "rising"
        ELSE IF first # 0 /\ last # 0 /\ RatioBelowMinusTenth(first, last)
             THEN "falling"
        ELSE "stable"

\* lines 395-402: 呈上升趋势 is "rising", 呈下降趋势 is "falling" and
\* 基本稳定 is "stable"
TrendLabel(monthly_totals) ==
    LET first == monthly_totals[1]
        last  == monthly_totals[Len(monthly_totals)]
    IN  IF first # 0 /\ RatioAboveTenth(first, last) THEN "rising"
        ELSE IF first # 0 /\ RatioBelowMinusTenth(first, last) THEN "falling"
        ELSE "stable"

\* max(items, key=value): the first item, in declaration order, of the
\* greatest value
MaxCategory(totals) ==
    LET i == CHOOSE k \in 1..Len(Categories) :
                 /\ \A j \in 1..Len(Categories) :
                        totals[Categories[j]] <= totals[Categories[k]]
                 /\ \A j \in 1..(k - 1) :
                        totals[Categories[j]] < totals[Categories[k]]
    IN  Categories[i]

\* what generate_yearly_report computes, after the font was found
generate_yearly_report(exp, year) ==
    LET summaries == [month \in 1..12 |->
                         get_monthly_summary(exp, year \o <<"-">> \o Pad2(month))]
        monthly_totals == [month \in 1..12 |-> summaries[month].total]
        total_year == SumSeq(monthly_totals)
        category_year_totals ==
            [c \in DOMAIN category_keywords |->
                SumSeq([month \in 1..12 |->
                           Get(summaries[month].category_totals, c, 0)])]
    IN  IF total_year = 0
        THEN [kind |-> "nodata year", year |-> year]
        ELSE [kind |-> "yearly", year |-> year,
              monthly_totals |-> monthly_totals,
              total_year |-> total_year,
              max_category |-> MaxCategory(category_year_totals),
              high_months |-> {m \in 1..12 : monthly_totals[m] * 12 > total_year},
              trend |-> TrendLabel(monthly_totals)]

(***************************************************************************)
(* main: the queries.                                                      *)
(***************************************************************************)
\* ^\d{4}-(?:0[1-9]|1[0-2])$
ValidMonthInput(s) ==
    /\ Len(s) = 7
    /\ AllDigits(SubSeq(s, 1, 4))
    /\ s[5] = "-"
    /\ AllDigits(SubSeq(s, 6, 7))
    /\ NumVal(SubSeq(s, 6, 7)) \in 1..12

\* ^\d{4}$
ValidYearInput(s) == Len(s) = 4 /\ AllDigits(s)

\* what the user types at "请输入月份": 2024-01, 2024-02, 2024-12,
\* 2023-12, 0024-02 and 24-02
MonthInputs ==
    {<<"2", "0", "2", "4", "-", "0", "1">>,
     <<"2", "0", "2", "4", "-", "0", "2">>,
     <<"2", "0", "2", "4", "-", "1", "2">>,
     <<"2", "0", "2", "3", "-", "1", "2">>,
     <<"0", "0", "2", "4", "-", "0", "2">>,
     <<"2", "4", "-", "0", "2">>}

\* what the user types at "请输入年份": 2024, 2023, 0024 and 24
YearInputs ==
    {<<"2", "0", "2", "4">>, <<"2", "0", "2", "3">>,
     <<"0", "0", "2", "4">>, <<"2", "4">>}

\* choice 2; get_font_path raises FileNotFoundError when no font is installed
MonthlyReport(month, font) ==
    /\ pc = "menu"
    /\ report' =
           IF ~ValidMonthInput(month) THEN [kind |-> "format error"]
           ELSE IF ~font THEN [kind |-> "no font"]
           ELSE generate_monthly_report(expenses, month)
    /\ pc' = "reported"
    /\ UNCHANGED <<expenses, file, ret, saveLog, durable, description, category>>

\* choice 3
YearlyReport(year, font) ==
    /\ pc = "menu"
    /\ report' =
           IF ~ValidYearInput(year) THEN [kind |-> "format error"]
           ELSE IF ~font THEN [kind |-> "no font"]
           ELSE generate_yearly_report(expenses, year)
    /\ pc' = "reported"
    /\ UNCHANGED <<expenses, file, ret, saveLog, durable, description, category>>

\* the loop of main comes back to the menu
Menu ==
    /\ pc = "reported"
    /\ pc' = "menu"
    /\ report' = [kind |-> "none"]
    /\ UNCHANGED <<expenses, file, ret, saveLog, durable, description, category>>

Init ==
    /\ expenses = EmptyDict
    /\ file = Absent
    /\ pc = "menu"
    /\ ret = "none"
    /\ saveLog = "none"
    /\ report = [kind |-> "none"]
    /\ durable = EmptyDict
    /\ description = <<>>
    /\ category = "none"

\* the input lines and direct calls of the persistence specification
StoreLines ==
    {LineFeb, LineTwoDigitYear, LineYear24,
     LineFeb30, LineThreeDigitYear, LineDashes, LineNoAmount}

\* Recording, saving, stopping and restarting, with the failures of the
\* file system.
Next ==
    \/ \E l \in StoreLines : RecordExpense(l)
    \/ \E c \in DirectCalls : DirectCall(c)
    \/ SaveOpen
    \/ SaveOpenFails
    \/ SaveWrite
    \/ SaveWriteFails
    \/ Stop
    \/ Restart

Spec == Init /\ [][Next]_vars

\* Recording and reporting in one run in which the file system does not fail.
NextReports ==
    \/ \E l \in InputLines : RecordExpense(l)
    \/ \E c \in DirectCalls : DirectCall(c)
    \/ SaveOpen
    \/ SaveWrite
    \/ \E m \in MonthInputs, font \in BOOLEAN : MonthlyReport(m, font)
    \/ \E y \in YearInputs, font \in BOOLEAN : YearlyReport(y, font)
    \/ Menu

SpecReports == Init /\ [][NextReports]_vars

(***************************************************************************)
(* The categorizer on its own: one call of categorize_description on any   *)
(* description over a small alphabet.                                      *)
(***************************************************************************)
\* 饭, 电, 影, 地, 铁, 包, and K, t, v, x
Alphabet ==
    {"u996d", "u7535", "u5f71", "u5730", "u94c1", "u5305", "K", "t", "v", "x"}

Descriptions == UNION {[1..n -> Alphabet] : n \in 0..MaxDescLen}

InitCat ==
    /\ expenses = EmptyDict
    /\ file = Absent
    /\ pc = "menu"
    /\ ret = "none"
    /\ saveLog = "none"
    /\ report = [kind |-> "none"]
    /\ durable = EmptyDict
    /\ description \in Descriptions
    /\ category = "none"

Categorize ==
    /\ category = "none"
    /\ category' = categorize_description(description)
    /\ UNCHANGED <<expenses, file, pc, ret, saveLog, report, durable, description>>

NextCat == Categorize

SpecCat == InitCat /\ [][NextCat]_vars

(***************************************************************************)
(* What the claims speak of.                                               *)
(***************************************************************************)
\* the year and the month a period key names
KeyYear(key) == NumVal(Split(key, "-")[1])

KeyMonth(key) == NumVal(Split(key, "-")[2])

\* the (period, category) pairs a ledger holds a list for
Slots(exp) == UNION {{<<m, c>> : c \in DOMAIN exp[m]} : m \in DOMAIN exp}

\* the amounts of the records of a list dated in month m of year y, of any
\* category (cats = {}) or of the categories cats
DatedListSum(list, y, m, cats) ==
    SumFn([i \in 1..Len(list) |->
              IF /\ strptime(list[i].date).year = y
                 /\ strptime(list[i].date).month = m
                 /\ (cats = {} \/ list[i].category \in cats)
              THEN list[i].amount ELSE 0])

\* the same over the whole ledger, whatever keys the records are stored under
DatedSum(exp, y, m, cats) ==
    SumFn([s \in Slots(exp) |-> DatedListSum(exp[s[1]][s[2]], y, m, cats)])

\* a is a prefix of b
IsPrefix(a, b) == Len(a) <= Len(b) /\ SubSeq(b, 1, Len(a)) = a

\* ledger a holds every record of ledger b, in b's order
Covers(a, b) ==
    \A s \in Slots(b) :
        /\ s \in Slots(a)
        /\ IsPrefix(b[s[1]][s[2]], a[s[1]][s[2]])

(***************************************************************************)
(* C1.                                                                     *)
(***************************************************************************)
\* C1: every record stored in expenses[period][category] has a date whose
\* year and month are those of the period key, and a 'category' field equal
\* to the category key: after any sequence of add_expense calls, with or
\* without a category argument, and after loading a file save_data wrote.
C1_LedgerInvariant ==
    \A s \in Slots(expenses) :
        \A i \in 1..Len(expenses[s[1]][s[2]]) :
            LET r == expenses[s[1]][s[2]][i]
            IN  /\ strptime(r.date).ok
                /\ strptime(r.date).year = KeyYear(s[1])
                /\ strptime(r.date).month = KeyMonth(s[1])
                /\ r.category = s[2]

\* a ledger loaded from the file on a restart, with a record of year 24, a
\* record whose two-digit year was completed, and an explicit category
C1_Witness ==
    /\ pc = "menu"
    /\ ret = "none"
    /\ <<<<"2", "4", "-", "0", "2">>, "yule">> \in Slots(expenses)
    /\ <<<<"2", "0", "2", "4", "-", "0", "2">>, "jiaotong">> \in Slots(expenses)
    /\ <<<<"2", "0", "2", "4", "-", "1", "2">>, "lvxing">> \in Slots(expenses)

(***************************************************************************)
(* C2.                                                                     *)
(***************************************************************************)
\* C2: when the process stops at any point between the in-memory append and
\* the end of save_data, the file still loads to a ledger that holds every
\* record of the last completed save.
C2_CrashSafe ==
    pc = "stopped" => Covers(load_data(EmptyDict, file), durable)

C8_RejectedLeavesLedger ==
    [][(pc = "menu" /\ pc' = "menu" /\ ret' \in {"None", "False"})
          => (expenses' = expenses /\ file' = file)]_vars

\* add_expense returned False with records in the ledger and in the file
C8_Witness ==
    /\ ret = "False"
    /\ pc = "menu"
    /\ RecordCount(expenses) >= 1
    /\ file.kind = "json"

(***************************************************************************)
(* C9.                                                                     *)
(***************************************************************************)
\* C9: whenever add_expense has returned True, also in the runs in which
\* the open or the write of save_data fails, the file holds the whole
\* in-memory ledger, the record just added included.
C9_DurableOnTrue ==
    (pc = "menu" /\ ret = "True") =>
        (file.kind = "json" /\ file.data = expenses)

(***************************************************************************)
(* C4.                                                                     *)
(***************************************************************************)
\* the declared categories one of whose keywords occurs in the lower-cased
\* description, by their place in the declaration order
Matching(desc) ==
    {i \in 1..Len(Categories) :
        \E k \in 1..Len(category_keywords[Categories[i]]) :
            Contains(Lower(desc), category_keywords[Categories[i]][k])}

\* C4: categorize_description returns one of the five declared categories:
\* the default 其他 when the lower-cased description contains no declared
\* keyword, and otherwise the earliest declared category one of whose
\* keywords it contains, wherever the keywords stand in the description.
C4_FirstDeclaredMatch ==
    category # "none" =>
        /\ \E i \in 1..Len(Categories) : category = Categories[i]
        /\ Matching(description) = {} => category = "qita"
        /\ Matching(description) # {} =>
               \E i \in Matching(description) :
                   /\ category = Categories[i]
                   /\ \A j \in Matching(description) : i <= j

\* a description with 包 (购物) before 饭 (吃饭) was categorized
C4_Witness ==
    /\ category = "chifan"
    /\ Len(description) >= 2
    /\ description[1] = "u5305"
    /\ description[2] = "u996d"
    /\ Cardinality(Matching(description)) >= 2

(***************************************************************************)
(* C5.                                                                     *)
(***************************************************************************)
\* the sum of the amounts of a list
AmountsOf(list) == SumFn([i \in 1..Len(list) |-> list[i].amount])

\* C5: get_monthly_summary returns, for every declared category, the sum of
\* the amounts of the records of expenses[period][category] (0 when the
\* period or the category is absent), and a total that is the sum of the
\* per-category totals; for a period without records all of them are 0.
C5_Conservation ==
    report.kind \in {"monthly", "nodata"} =>
        LET key == report.month_key
        IN  /\ DOMAIN report.category_totals = DOMAIN category_keywords
            /\ \A c \in DOMAIN category_keywords :
                   report.category_totals[c] =
                       IF <<key, c>> \in Slots(expenses)
                       THEN AmountsOf(expenses[key][c]) ELSE 0
            /\ report.total = SumFn(report.category_totals)
            /\ key \notin DOMAIN expenses =>
                   /\ report.total = 0
                   /\ \A c \in DOMAIN category_keywords :
                          report.category_totals[c] = 0

\* the summary of 2024-02 with 25 and 25 in 吃饭 and 5 in 交通
C5_Witness ==
    /\ report.kind = "monthly"
    /\ report.month_key = <<"2", "0", "2", "4", "-", "0", "2">>
    /\ report.category_totals["chifan"] = 5000
    /\ report.category_totals["jiaotong"] = 500
    /\ report.total = 5500

(***************************************************************************)
(* C6.                                                                     *)
(***************************************************************************)
\* C6: in the comparison of generate_monthly_report no division by zero
\* occurs in any category; a category is printed when its current or its
\* previous total is greater than 0, and what is printed is the sentinel
\* 无上月数据 when the previous total is 0 and the current total is greater
\* than 0, and (current - previous) / previous * 100 otherwise; the previous
\* period of YYYY-MM is YYYY-(MM-1), and (YYYY-1)-12 when MM is 01.
C6_DeltaSentinel ==
    report.kind = "monthly" =>
        LET y  == KeyYear(report.month_key)
            m  == KeyMonth(report.month_key)
            py == IF m = 1 THEN y - 1 ELSE y
            pm == IF m = 1 THEN 12 ELSE m - 1
        IN  /\ KeyYear(report.prev_month) = py
            /\ KeyMonth(report.prev_month) = pm
            /\ \A c \in DOMAIN category_keywords :
                   LET current  == DatedSum(expenses, y, m, {c})
                       previous == DatedSum(expenses, py, pm, {c})
                   IN  /\ report.change[c].kind = "percent"
                              => report.change[c].den # 0
                       /\ c \in report.shown <=> (current > 0 \/ previous > 0)
                       /\ c \in report.shown =>
                              IF previous = 0 /\ current > 0
                              THEN report.change[c] = NoPriorData
                              ELSE report.change[c] =
                                       [kind |-> "percent",
                                        num |-> (current - previous) * 100,
                                        den |-> previous]

\* the report of 2024-01 after 2023-12: 吃饭 has no prior data, 购物 went
\* from 50.5 to 0, and 娱乐, 0 in both months, is not printed
C6_Witness ==
    /\ report.kind = "monthly"
    /\ report.month_key = <<"2", "0", "2", "4", "-", "0", "1">>
    /\ report.prev_month = <<"2", "0", "2", "3", "-", "1", "2">>
    /\ report.category_totals["chifan"] > 0
    /\ report.change["chifan"] = NoPriorData
    /\ report.change["gouwu"] = [kind |-> "percent", num |-> -505000, den |-> 5050]
    /\ report.change["yule"] = NoPriorData
    /\ report.shown = {"chifan", "gouwu"}

(***************************************************************************)
(* C7.                                                                     *)
(***************************************************************************)
\* the monthly totals of Scenario D: 100 in January, 0 in every other month
ScenarioD == [month \in 1..12 |-> IF month = 1 THEN 10000 ELSE 0]

\* C7 as stated: with 100 in January and 0 in every other month the label is
\* never "falling".
C7_ScenarioDNeverFalling ==
    (report.kind = "yearly" /\ report.monthly_totals = ScenarioD)
        => report.trend # "falling"

\* C7 as amended: the label is "rising" when (Dec - Jan) / Jan > 0.10,
\* "falling" when it is < -0.10, "stable" otherwise and whenever Jan is 0;
\* with 100 in January and 0 in every other month it is "falling".
C7_TrendLabel ==
    report.kind = "yearly" =>
        LET jan == report.monthly_totals[1]
            dec == report.monthly_totals[12]
        IN  /\ jan = DatedSum(expenses, NumVal(report.year), 1,
                              DOMAIN category_keywords)
            /\ dec = DatedSum(expenses, NumVal(report.year), 12,
                              DOMAIN category_keywords)
            /\ jan >= 0
            /\ report.trend \in {"rising", "falling", "stable"}
            /\ jan = 0 => report.trend = "stable"
            /\ jan > 0 =>
                   /\ report.trend = "rising" <=> (dec - jan) * 10 > jan
                   /\ report.trend = "falling" <=> (dec - jan) * 10 < 0 - jan
            /\ report.monthly_totals = ScenarioD => report.trend = "falling"

\* the yearly report of Scenario D
C7_Witness ==
    /\ report.kind = "yearly"
    /\ report.monthly_totals = ScenarioD
    /\ report.trend = "falling"

(***************************************************************************)
(* C10.                                                                    *)
(***************************************************************************)
\* the format YYYY of the month query: four digits, zero-padded
Pad4(n) ==
    IF n < 10 THEN <<"0", "0", "0">> \o Str(n)
    ELSE IF n < 100 THEN <<"0", "0">> \o Str(n)
    ELSE IF n < 1000 THEN <<"0">> \o Str(n)
    ELSE Str(n)

\* C10: once add_expense has returned True, the total get_monthly_summary
\* returns for the key YYYY-MM of any record's date is the sum of the
\* amounts of all the records dated in that month.
C10_AcceptedIsReported ==
    (pc = "menu" /\ ret = "True") =>
        \A s \in Slots(expenses) :
            \A i \in 1..Len(expenses[s[1]][s[2]]) :
                LET d == strptime(expenses[s[1]][s[2]][i].date)
                IN  get_monthly_summary(
                        expenses, Pad4(d.year) \o <<"-">> \o Pad2(d.month)).total
                    = DatedSum(expenses, d.year, d.month, {})

====
